---- MODULE Spec2Model ----
(***************************************************************************)
(* State-machine model of the dotfiles repository's scripts:               *)
(*   - retry_on_failure               (src/run.py)                         *)
(*   - osx_pmset                      (src/library/osx_pmset.py and        *)
(*                                     src/roles/macos_settings/library)   *)
(*   - configure_network_interfaces   (src/library/...)                    *)
(*   - download_installer             (src/scripts/installers/...)         *)
(* Python values are tagged records; Python strings that the code parses   *)
(* or formats are sequences of one-character strings.                      *)
(***************************************************************************)
EXTENDS Integers, Sequences, FiniteSets, TLC

VARIABLES
    \* retry_on_failure wrapper
    rt_max_attempts, rt_delay, rt_backoff, rt_attempt, rt_calls, rt_sleeps,
    rt_last_exception, rt_pc, rt_return,
    \* osx_pmset run_module
    pm_params, pm_output, pm_check_mode, pm_pc, pm_block, pm_index,
    pm_commands, pm_result, pm_executed,
    \* configure_network_interfaces: module params, host, run_module position,
    \* the ConfigureNetworkInterfaces object's caches and result
    interfaces, check_mode, host, pc, idx, svc_idx, hardware_ports,
    all_service_info, network_services, result, raised,
    \* download_installer: the two globals, the loop, the destination file
    dl_retries, dl_delay, dl_attempt, dl_attempts, dl_sleeps, dl_dest,
    dl_writes, dl_pc, dl_return,
    \* cmd_update_inventory: the inventory directory, --force, the retried
    \* operation and the calls made
    inv_dir, inv_dir0, inv_force, inv_op, inv_attempt, inv_calls, inv_sleeps,
    inv_last_exception, inv_pc,
    \* setup_environment: /etc/environment over the runs made
    env_file, env_before, env_results

rt_vars == <<rt_max_attempts, rt_delay, rt_backoff, rt_attempt, rt_calls,
             rt_sleeps, rt_last_exception, rt_pc, rt_return>>
pm_vars == <<pm_params, pm_output, pm_check_mode, pm_pc, pm_block, pm_index,
             pm_commands, pm_result, pm_executed>>
net_vars == <<interfaces, check_mode, host, pc, idx, svc_idx, hardware_ports,
              all_service_info, network_services, result, raised>>
dl_vars == <<dl_retries, dl_delay, dl_attempt, dl_attempts, dl_sleeps, dl_dest,
             dl_writes, dl_pc, dl_return>>
inv_vars == <<inv_dir, inv_dir0, inv_force, inv_op, inv_attempt, inv_calls,
              inv_sleeps, inv_last_exception, inv_pc>>
env_vars == <<env_file, env_before, env_results>>
script_vars == <<dl_vars, inv_vars, env_vars>>
vars == <<rt_vars, pm_vars, net_vars, script_vars>>

(***************************************************************************)
(* Python values                                                           *)
(***************************************************************************)
None == [t |-> "none"]
PyInt(n) == [t |-> "int", n |-> n]
PyStr(s) == [t |-> "str", s |-> s]
PyExc(e) == [t |-> "exc", e |-> e]
PyBool(b) == [t |-> "bool", b |-> b]
PyList(items) == [t |-> "list", items |-> items]
PyDict(d) == [t |-> "dict", d |-> d]

\* bool(v): what "if v:" tests
Truthy(v) ==
    CASE v.t = "none" -> FALSE
      [] v.t = "bool" -> v.b
      [] v.t = "int"  -> v.n # 0
      [] v.t = "str"  -> v.s # ""
      [] v.t = "list" -> v.items # <<>>
      [] v.t = "dict" -> DOMAIN v.d # {}

DigitVal ==
    ("0" :> 0) @@ ("1" :> 1) @@ ("2" :> 2) @@ ("3" :> 3) @@ ("4" :> 4) @@
    ("5" :> 5) @@ ("6" :> 6) @@ ("7" :> 7) @@ ("8" :> 8) @@ ("9" :> 9)

DigitChar == <<"0", "1", "2", "3", "4", "5", "6", "7", "8", "9">>

\* int(s) succeeds on a non-empty string of decimal digits
IsIntLiteral(s) == Len(s) > 0 /\ \A i \in 1..Len(s) : s[i] \in DOMAIN DigitVal

RECURSIVE IntOf(_)
IntOf(s) ==
    IF Len(s) = 0 THEN 0
    ELSE 10 * IntOf(SubSeq(s, 1, Len(s) - 1)) + DigitVal[s[Len(s)]]

\* str(n) for n >= 0
RECURSIVE IntToStr(_)
IntToStr(n) ==
    IF n < 10 THEN <<DigitChar[n + 1]>>
    ELSE IntToStr(n \div 10) \o <<DigitChar[(n % 10) + 1]>>

\* str(v) of a Python int or str
StrOf(v) == IF v.t = "int" THEN IntToStr(v.n) ELSE v.s

\* a != b for Python ints and strs (values of different types are unequal)
PyNe(a, b) ==
    IF a.t # b.t THEN TRUE
    ELSE IF a.t = "int" THEN a.n # b.n
    ELSE IF a.t = "str" THEN a.s # b.s
    ELSE FALSE

RECURSIVE Pow(_, _)
Pow(b, e) == IF e = 0 THEN 1 ELSE b * Pow(b, e - 1)

(***************************************************************************)
(* retry_on_failure (src/run.py)                                           *)
(***************************************************************************)
MaxAttempts == 3

RetValues == {"v1", "v2"}
Exceptions == {"e1", "e2"}
Delays == {2, 5}
Backoffs == {1, 2}

\* what one call of the wrapped function does: return a value or raise
FuncOutcomes ==
    {[kind |-> "ok", v |-> v] : v \in RetValues} \cup
    {[kind |-> "raise", e |-> e] : e \in Exceptions}

RetryIdle ==
    /\ rt_max_attempts = 0 /\ rt_delay = 0 /\ rt_backoff = 0
    /\ rt_attempt = 0 /\ rt_calls = <<>> /\ rt_sleeps = <<>>
    /\ rt_last_exception = None /\ rt_pc = "off" /\ rt_return = None

RetryInit ==
    /\ rt_max_attempts \in 0..MaxAttempts
    /\ rt_delay \in Delays
    /\ rt_backoff \in Backoffs
    /\ rt_attempt = 1
    /\ rt_calls = <<>>
    /\ rt_sleeps = <<>>
    /\ rt_last_exception = None
    /\ rt_pc = "loop"
    /\ rt_return = None

\* the exception the wrapper remembers after a failed call
KeepFirstException(prev, e) == IF prev = None THEN e ELSE prev
RememberException(prev, e) == e

\* whether a failed attempt is followed by a sleep and another attempt
SleepAfterEveryFailure(attempt, max_attempts) == attempt <= max_attempts
MoreAttempts(attempt, max_attempts) == attempt < max_attempts

\* the range(1, max_attempts + 1) loop is not exhausted
InLoop(attempt, max_attempts) == attempt <= max_attempts

WaitTime(delay, backoff, attempt) == delay * Pow(backoff, attempt - 1)

\* one iteration of the for loop: call func, return on success, otherwise
\* remember the exception and sleep when attempts remain
RetryAttempt ==
    /\ rt_pc = "loop"
    /\ InLoop(rt_attempt, rt_max_attempts)
    /\ \E outcome \in FuncOutcomes :
        /\ rt_calls' = Append(rt_calls, outcome)
        /\ IF outcome.kind = "ok"
           THEN /\ rt_pc' = "returned"
                /\ rt_return' = [kind |-> "value", v |-> outcome.v]
                /\ UNCHANGED <<rt_attempt, rt_sleeps, rt_last_exception>>
           ELSE /\ rt_last_exception' =
                      RememberException(rt_last_exception, PyExc(outcome.e))
                /\ rt_sleeps' =
                      IF MoreAttempts(rt_attempt, rt_max_attempts)
                      THEN Append(rt_sleeps, WaitTime(rt_delay, rt_backoff, rt_attempt))
                      ELSE rt_sleeps
                /\ rt_attempt' = rt_attempt + 1
                /\ UNCHANGED <<rt_pc, rt_return>>
    /\ UNCHANGED <<rt_max_attempts, rt_delay, rt_backoff>>
    /\ UNCHANGED <<pm_vars, net_vars, script_vars>>

\* after the loop: re-raise the last exception, or return None
RetryAfterLoop ==
    /\ rt_pc = "loop"
    /\ ~InLoop(rt_attempt, rt_max_attempts)
    /\ IF rt_last_exception # None
       THEN /\ rt_pc' = "raised"
            /\ rt_return' = [kind |-> "exception", e |-> rt_last_exception]
       ELSE /\ rt_pc' = "returned"
            /\ rt_return' = [kind |-> "none"]
    /\ UNCHANGED <<rt_max_attempts, rt_delay, rt_backoff, rt_attempt, rt_calls,
                   rt_sleeps, rt_last_exception>>
    /\ UNCHANGED <<pm_vars, net_vars, script_vars>>

RetryNext == RetryAttempt \/ RetryAfterLoop

\* C6: a function wrapped by retry_on_failure(max_attempts=N), N >= 1, is
\* called at most N times and never again after a call that returned; the
\* wrapper ends only after a successful call, whose value it returns, or after
\* N failed calls, and then raises the exception of the N-th call.
C6_RetryUntilSuccessOrN ==
    (rt_pc # "off" /\ rt_max_attempts >= 1) =>
        /\ Len(rt_calls) <= rt_max_attempts
        /\ \A i \in 1..Len(rt_calls) :
              rt_calls[i].kind = "ok" => i = Len(rt_calls)
        /\ rt_pc = "loop" => \A i \in 1..Len(rt_calls) : rt_calls[i].kind = "raise"
        /\ rt_pc = "returned" =>
              /\ Len(rt_calls) >= 1
              /\ rt_calls[Len(rt_calls)].kind = "ok"
              /\ rt_return = [kind |-> "value", v |-> rt_calls[Len(rt_calls)].v]
        /\ rt_pc = "raised" =>
              /\ Len(rt_calls) = rt_max_attempts
              /\ \A i \in 1..Len(rt_calls) : rt_calls[i].kind = "raise"
              /\ rt_return = [kind |-> "exception",
                              e |-> PyExc(rt_calls[rt_max_attempts].e)]

\* all three attempts failed, with different exceptions first and last
C6_Witness ==
    /\ rt_pc = "raised"
    /\ rt_max_attempts = 3
    /\ Len(rt_calls) = 3
    /\ rt_calls[1].e # rt_calls[3].e

\* the calls so far that raised
C16_Failed == Len(SelectSeq(rt_calls, LAMBDA c : c.kind = "raise"))

\* C16: retry_on_failure(max_attempts=N, delay=d, backoff=b), with integer d
\* and b, sleeps exactly d * b^(k-1) after the k-th failed call for every
\* k < N, and neither after the N-th failure nor after a success: j failed
\* calls followed by a success make exactly j sleeps.
C16_ExponentialBackoffWaits ==
    (rt_pc # "off" /\ rt_max_attempts >= 1) =>
        /\ Len(rt_sleeps) = (IF C16_Failed < rt_max_attempts THEN C16_Failed
                             ELSE rt_max_attempts - 1)
        /\ \A k \in 1..Len(rt_sleeps) :
              rt_sleeps[k] = rt_delay * (rt_backoff ^ (k - 1))
        /\ rt_pc = "returned" => Len(rt_sleeps) = Len(rt_calls) - 1

\* d = 2, b = 2, N = 3: two failed calls, waits of 2 and 4, then a success
C16_Witness ==
    /\ rt_pc = "returned"
    /\ rt_max_attempts = 3 /\ rt_delay = 2 /\ rt_backoff = 2
    /\ Len(rt_calls) = 3
    /\ rt_calls[3].kind = "ok"
    /\ rt_sleeps = <<2, 4>>

(***************************************************************************)
(* osx_pmset (both copies share run_module's logic)                        *)
(***************************************************************************)
MaxParams == 2

c0 == <<"0">>
c1 == <<"1">>
c01 == <<"0", "1">>
c2 == <<"2">>
cPath == <<"/", "v", "m">>

\* (param, value) pairs a playbook may give for a block
PmEntries ==
    {[param |-> "sleep", value |-> v] : v \in {None, PyInt(1), PyStr(c1)}} \cup
    {[param |-> "hibernatefile", value |-> v] : v \in {PyInt(1), PyStr(cPath)}} \cup
    {[param |-> "bogus", value |-> v] : v \in {None, PyInt(1)}}

\* a dict in insertion order: distinct keys
PmDicts ==
    {d \in UNION {[1..n -> PmEntries] : n \in 0..MaxParams} :
        \A i, j \in 1..Len(d) : i # j => d[i].param # d[j].param}

\* parse_pmset_output(stdout): section -> key -> value string
PmOutputs ==
    {[battery |-> ("sleep" :> b) @@ ("hibernatefile" :> cPath),
      ac      |-> ("sleep" :> a) @@ ("hibernatefile" :> cPath)] :
        b \in {c01, c2}, a \in {c1, c2}}

PmIdle ==
    /\ pm_params = <<>> /\ pm_output = <<>> /\ pm_check_mode = FALSE
    /\ pm_pc = "off" /\ pm_block = 0 /\ pm_index = 0
    /\ pm_commands = <<>> /\ pm_result = <<>> /\ pm_executed = <<>>

PmInit ==
    /\ pm_params \in [on_battery : PmDicts, on_charger : PmDicts]
    /\ pm_output \in PmOutputs
    /\ pm_check_mode \in BOOLEAN
    /\ pm_pc = "query"
    /\ pm_block = 1
    /\ pm_index = 1
    /\ pm_commands = <<>>
    /\ pm_result = [changed |-> FALSE, before |-> <<>>, after |-> <<>>,
                    outcome |-> "running"]
    /\ pm_executed = <<>>

\* blocks = [('on_battery', '-b', output['Battery Power']),
\*           ('on_charger', '-c', output['AC Power'])]
PmBlocks ==
    <<[block |-> "on_battery", mode_flag |-> "-b", current_values |-> pm_output.battery,
       items |-> pm_params.on_battery],
      [block |-> "on_charger", mode_flag |-> "-c", current_values |-> pm_output.ac,
       items |-> pm_params.on_charger]>>

\* _, stdout, _ = module.run_command(['pmset', '-g', 'custom'], check_rc=True)
PmQuery ==
    /\ pm_pc = "query"
    /\ \E rc \in {0, 1} :
        IF rc # 0
        THEN /\ pm_pc' = "done"
             /\ pm_result' = [pm_result EXCEPT !.outcome = "fail_json"]
        ELSE /\ pm_pc' = "loop"
             /\ UNCHANGED pm_result
    /\ UNCHANGED <<pm_params, pm_output, pm_check_mode, pm_block, pm_index,
                   pm_commands, pm_executed>>
    /\ UNCHANGED <<rt_vars, net_vars, script_vars>>

\* orig after "if isinstance(value, int): orig = int(orig)"
StringCompareOnly(orig, value) == PyStr(orig)
ConvertOrig(orig, value) ==
    IF value.t = "int" THEN PyInt(IntOf(orig)) ELSE PyStr(orig)

\* int(orig) raises ValueError
ConvertRaises(orig, value) == value.t = "int" /\ ~IsIntLiteral(orig)

\* a diff line that names the battery block whatever the block is
DiffLineOfBattery(block, param, value) ==
    [block |-> "on_battery", param |-> param, value |-> StrOf(value)]

\* one line of diff.before / diff.after: f'{block}.{param}={value}\n'
DiffLine(block, param, value) ==
    [block |-> block, param |-> param, value |-> StrOf(value)]

\* one iteration of the loops over blocks and their items
PmLoop ==
    /\ pm_pc = "loop"
    /\ pm_block <= Len(PmBlocks)
    /\ LET b == PmBlocks[pm_block] IN
        IF pm_index > Len(b.items)
        THEN \* inner loop exhausted: next block
             /\ pm_block' = pm_block + 1
             /\ pm_index' = 1
             /\ UNCHANGED <<pm_pc, pm_commands, pm_result>>
        ELSE LET param == b.items[pm_index].param
                 value == b.items[pm_index].value
             IN
             IF value = None
             THEN /\ pm_index' = pm_index + 1
                  /\ UNCHANGED <<pm_pc, pm_block, pm_commands, pm_result>>
             ELSE IF param \notin DOMAIN b.current_values
             THEN /\ pm_pc' = "done"
                  /\ pm_result' = [pm_result EXCEPT !.outcome = "fail_json"]
                  /\ UNCHANGED <<pm_block, pm_index, pm_commands>>
             ELSE IF ConvertRaises(b.current_values[param], value)
             THEN /\ pm_pc' = "done"
                  /\ pm_result' = [pm_result EXCEPT !.outcome = "ValueError"]
                  /\ UNCHANGED <<pm_block, pm_index, pm_commands>>
             ELSE LET orig == ConvertOrig(b.current_values[param], value) IN
                  /\ pm_index' = pm_index + 1
                  /\ IF PyNe(orig, value)
                     THEN /\ pm_result' =
                               [pm_result EXCEPT
                                  !.before = Append(@, DiffLine(b.block, param, orig)),
                                  !.after = Append(@, DiffLine(b.block, param, value))]
                          /\ pm_commands' =
                               Append(pm_commands, <<"pmset", b.mode_flag, param, value>>)
                     ELSE UNCHANGED <<pm_commands, pm_result>>
                  /\ UNCHANGED <<pm_pc, pm_block>>
    /\ UNCHANGED <<pm_params, pm_output, pm_check_mode, pm_executed>>
    /\ UNCHANGED <<rt_vars, net_vars, script_vars>>

\* if module.check_mode: module.exit_json(**result), before any command runs
NeverExitsEarly(in_check_mode) == FALSE
ExitsBeforeCommands(in_check_mode) == in_check_mode

\* if commands: changed = True; if module.check_mode: module.exit_json(**result)
PmAfterLoop ==
    /\ pm_pc = "loop"
    /\ pm_block > Len(PmBlocks)
    /\ LET changed == IF pm_commands # <<>> THEN TRUE ELSE pm_result.changed IN
        IF ExitsBeforeCommands(pm_check_mode)
        THEN /\ pm_pc' = "done"
             /\ pm_result' = [pm_result EXCEPT !.changed = changed,
                                               !.outcome = "exit_json"]
        ELSE /\ pm_pc' = "run"
             /\ pm_result' = [pm_result EXCEPT !.changed = changed]
    /\ UNCHANGED <<pm_params, pm_output, pm_check_mode, pm_block, pm_index,
                   pm_commands, pm_executed>>
    /\ UNCHANGED <<rt_vars, net_vars, script_vars>>

\* cmd = [str(v) for v in command]
CommandArgv(command) == <<command[1], command[2], command[3], StrOf(command[4])>>

\* for command in commands: module.run_command(cmd, check_rc=True)
PmRunCommand ==
    /\ pm_pc = "run"
    /\ Len(pm_executed) < Len(pm_commands)
    /\ pm_executed' = Append(pm_executed, CommandArgv(pm_commands[Len(pm_executed) + 1]))
    /\ \E rc \in {0, 1} :
        IF rc # 0
        THEN /\ pm_pc' = "done"
             /\ pm_result' = [pm_result EXCEPT !.outcome = "fail_json"]
        ELSE UNCHANGED <<pm_pc, pm_result>>
    /\ UNCHANGED <<pm_params, pm_output, pm_check_mode, pm_block, pm_index,
                   pm_commands>>
    /\ UNCHANGED <<rt_vars, net_vars, script_vars>>

\* module.exit_json(**result) after the last command
PmExit ==
    /\ pm_pc = "run"
    /\ Len(pm_executed) = Len(pm_commands)
    /\ pm_pc' = "done"
    /\ pm_result' = [pm_result EXCEPT !.outcome = "exit_json"]
    /\ UNCHANGED <<pm_params, pm_output, pm_check_mode, pm_block, pm_index,
                   pm_commands, pm_executed>>
    /\ UNCHANGED <<rt_vars, net_vars, script_vars>>

PmNext == PmQuery \/ PmLoop \/ PmAfterLoop \/ PmRunCommand \/ PmExit

\* the requested value of an item differs from the current value, compared as
\* integers when the requested value is an integer
C4_Differs(cur, item) ==
    /\ item.value # None
    /\ IF item.value.t = "int"
       THEN IntOf(cur[item.param]) # item.value.n
       ELSE cur[item.param] # item.value.s

RECURSIVE C4_Wanted(_, _, _)
C4_Wanted(items, cur, flag) ==
    IF items = <<>> THEN <<>>
    ELSE (IF C4_Differs(cur, Head(items))
          THEN <<(<<"pmset", flag, Head(items).param, StrOf(Head(items).value)>>)>>
          ELSE <<>>)
         \o C4_Wanted(Tail(items), cur, flag)

C4_AllWanted ==
    C4_Wanted(pm_params.on_battery, pm_output.battery, "-b") \o
    C4_Wanted(pm_params.on_charger, pm_output.ac, "-c")

\* C4: a normal (not check-mode) run of osx_pmset that exits successfully has
\* executed `pmset <flag> <param> <value>` for exactly the (block, param)
\* pairs whose requested value is not None and differs from the current value
\* (as integers when the requested value is an integer), -b for on_battery
\* and -c for on_charger, battery first; at no point has it executed a
\* command for a parameter already at the requested value.
C4_CommandsAreTheDiff ==
    /\ (pm_pc = "done" /\ pm_result.outcome = "exit_json" /\ ~pm_check_mode) =>
          pm_executed = C4_AllWanted
    /\ pm_executed # <<>> =>
          /\ Len(pm_executed) <= Len(C4_AllWanted)
          /\ pm_executed = SubSeq(C4_AllWanted, 1, Len(pm_executed))

\* a battery and a charger command were executed in that order, while another
\* requested parameter was left alone because it already had the value
C4_Witness ==
    /\ pm_pc = "done" /\ pm_result.outcome = "exit_json" /\ ~pm_check_mode
    /\ Len(pm_executed) = 2
    /\ pm_executed[1][2] = "-b" /\ pm_executed[2][2] = "-c"
    /\ \E i \in 1..Len(pm_params.on_battery) :
          /\ pm_params.on_battery[i].value # None
          /\ ~C4_Differs(pm_output.battery, pm_params.on_battery[i])

\* some requested non-None parameter is absent from its block's current values
C7_AbsentRequested ==
    \/ \E i \in 1..Len(pm_params.on_battery) :
          /\ pm_params.on_battery[i].value # None
          /\ pm_params.on_battery[i].param \notin DOMAIN pm_output.battery
    \/ \E i \in 1..Len(pm_params.on_charger) :
          /\ pm_params.on_charger[i].value # None
          /\ pm_params.on_charger[i].param \notin DOMAIN pm_output.ac

\* C7: when a requested non-None parameter is absent from `pmset -g custom`,
\* the run ends with fail_json and no value-setting command was executed.
C7_AbsentKeyFailsJson ==
    (pm_pc = "done" /\ C7_AbsentRequested) =>
        (pm_result.outcome = "fail_json" /\ pm_executed = <<>>)

\* the diff lines of the differing parameters of one block: the current
\* value (as the integer it is compared as, when the requested value is an
\* integer) when requested is FALSE, the requested value otherwise
RECURSIVE C11_Lines(_, _, _, _)
C11_Lines(items, cur, block, requested) ==
    IF items = <<>> THEN <<>>
    ELSE LET item == Head(items) IN
         (IF C4_Differs(cur, item)
          THEN <<[block |-> block, param |-> item.param,
                  value |-> IF requested THEN StrOf(item.value)
                            ELSE IF item.value.t = "int"
                            THEN IntToStr(IntOf(cur[item.param]))
                            ELSE cur[item.param]]>>
          ELSE <<>>)
         \o C11_Lines(Tail(items), cur, block, requested)

C11_Before ==
    C11_Lines(pm_params.on_battery, pm_output.battery, "on_battery", FALSE) \o
    C11_Lines(pm_params.on_charger, pm_output.ac, "on_charger", FALSE)

C11_After ==
    C11_Lines(pm_params.on_battery, pm_output.battery, "on_battery", TRUE) \o
    C11_Lines(pm_params.on_charger, pm_output.ac, "on_charger", TRUE)

\* C11: a normal run of osx_pmset that exits successfully reports changed =
\* true if and only if at least one requested non-None parameter differs from
\* its current value, and diff.before and diff.after each hold exactly one
\* block.param=value line per differing parameter, in the order of the
\* commands, before with the current and after with the requested value.
C11_ChangedAndDiff ==
    (pm_pc = "done" /\ pm_result.outcome = "exit_json" /\ ~pm_check_mode) =>
        /\ pm_result.changed <=> (C4_AllWanted # <<>>)
        /\ pm_result.before = C11_Before
        /\ pm_result.after = C11_After
        /\ Len(pm_result.before) = Len(pm_executed)
        /\ \A i \in 1..Len(pm_executed) :
              /\ pm_result.after[i].param = pm_executed[i][3]
              /\ pm_result.after[i].value = pm_executed[i][4]
              /\ pm_result.before[i].param = pm_executed[i][3]
              /\ (pm_result.after[i].block = "on_battery") <=> (pm_executed[i][2] = "-b")

\* a normal run changed one battery and one charger parameter and left a
\* third requested parameter alone
C11_Witness ==
    /\ pm_pc = "done" /\ pm_result.outcome = "exit_json" /\ ~pm_check_mode
    /\ pm_result.changed
    /\ Len(pm_result.before) = 2
    /\ pm_result.before[1].block = "on_battery"
    /\ pm_result.before[2].block = "on_charger"
    /\ Len(pm_params.on_battery) + Len(pm_params.on_charger) > 2

\* C12: in check mode osx_pmset executes no value-setting pmset command, and
\* it exits with the changed and diff that a normal run reports for the same
\* parameters and the same current values (those of C11, which depend on
\* the parameters and the current values alone).
C12_CheckModeOnlyReports ==
    pm_check_mode =>
        /\ pm_executed = <<>>
        /\ pm_pc # "run"
        /\ (pm_pc = "done" /\ pm_result.outcome = "exit_json") =>
              /\ pm_result.changed <=> (C4_AllWanted # <<>>)
              /\ pm_result.before = C11_Before
              /\ pm_result.after = C11_After

\* a check-mode run reported two differing parameters and ran nothing
C12_Witness ==
    /\ pm_check_mode
    /\ pm_pc = "done" /\ pm_result.outcome = "exit_json"
    /\ pm_result.changed
    /\ Len(pm_result.after) = 2
    /\ pm_executed = <<>>

(***************************************************************************)
(* configure_network_interfaces                                            *)
(*                                                                         *)
(* host is what the networksetup queries print, already split into lines:  *)
(*   host.ports            parse of -listallhardwareports: mac -> port     *)
(*   host.services         -listallnetworkservices lines with, for each,   *)
(*                         the return code and the lines of its -getinfo   *)
(*   host.dns, host.search -getdnsservers / -getsearchdomains by service   *)
(*   host.hw               by port: -getmedia, -getMTU, -listvalidMTUrange *)
(*                         and -listvalidmedia                             *)
(* Every value is read before the command that sets it and the interfaces  *)
(* of a run name different ports, so host stands for the state at the      *)
(* start of the run.                                                       *)
(***************************************************************************)
INTERFACE_CONFIGURATION_MAP ==
    ("DHCP" :> "dhcp") @@
    ("Manually Using DHCP Router" :> "dhcp_with_manual_address") @@
    ("Manual" :> "manual")

INTERFACE_IPV6_CONFIGURATION_MAP ==
    ("Off" :> "off") @@ ("Automatic" :> "automatic") @@ ("Manual" :> "manual") @@
    ("absent" :> "link_local")

IGNORED_NETWORK_SERVICES == {"*Disabled", "Thunderbolt Bridge"}

DefaultMTU == 1500

\* parse_getinfo(name, stdout). m.group(key) of the 'ipv6_address' pattern
\* names a group the pattern does not have (its group is 'address'), so a
\* stdout with an "IPv6 IP address:" line raises IndexError.
parse_getinfo(name, out) ==
    IF out.v6addr_line THEN [t |-> "IndexError"]
    ELSE IF out.header \notin DOMAIN INTERFACE_CONFIGURATION_MAP THEN None
    ELSE [t |-> "info",
          name |-> name,
          configuration |-> INTERFACE_CONFIGURATION_MAP[out.header],
          ip_address |-> out.ip_address,
          subnet_mask |-> out.subnet_mask,
          router |-> out.router,
          address |-> out.address,
          ipv6_configuration |-> INTERFACE_IPV6_CONFIGURATION_MAP[out.ipv6],
          ipv6_address |-> None,
          ipv6_router |-> out.ipv6_router,
          ipv6_prefix_length |-> out.ipv6_prefix_length]

\* a networksetup command line: the subcommand and its arguments
Cmd(op, args) == [op |-> op, args |-> args]

\* f'"{v}"' of an argument: None prints as the text None
Fmt(v) == IF v.t = "none" THEN PyStr("None") ELSE v

Entry(group, target, text) == [group |-> group, target |-> target, text |-> text]

NetIdle ==
    /\ interfaces = <<>> /\ check_mode = FALSE /\ host = <<>> /\ pc = "off"
    /\ idx = 0 /\ svc_idx = 0 /\ hardware_ports = None /\ all_service_info = <<>>
    /\ network_services = None /\ result = <<>> /\ raised = FALSE

\* ConfigureNetworkInterfaces.__init__
InitialResult ==
    [changed |-> FALSE, changelog |-> <<>>, commands_run |-> <<>>,
     cmd |-> None, returncode |-> None]

NetInitWith(Runs) ==
    /\ \E r \in Runs : interfaces = r.interfaces /\ host = r.host
    /\ check_mode \in BOOLEAN
    /\ pc = "start"
    /\ idx = 1
    /\ svc_idx = 1
    /\ hardware_ports = None
    /\ all_service_info = <<>>
    /\ network_services = None
    /\ result = InitialResult
    /\ raised = FALSE

\* self.result['commands_run'].append(full_cmd)
Issue(res, c) == [res EXCEPT !.commands_run = Append(@, c)]

RECURSIVE IssueAll(_, _)
IssueAll(res, cmds) ==
    IF cmds = <<>> THEN res ELSE IssueAll(Issue(res, Head(cmds)), Tail(cmds))

\* whether _update_result marks the result changed
ChangelogTruthy(changelog) == changelog # <<>>

\* _update_result(cmd=..., returncode=rc, ...)
UpdateResult(res, c, rc) ==
    [res EXCEPT !.cmd = c,
                !.returncode = IF rc # 0 THEN PyInt(rc) ELSE @,
                !.changed = IF ChangelogTruthy(res.changelog) THEN TRUE ELSE @]

RECURSIVE LogAll(_, _)
LogAll(res, entries) ==
    IF entries = <<>> THEN res
    ELSE LogAll([res EXCEPT !.changelog = Append(@, Head(entries))], Tail(entries))

\* networksetup_cmd(cmd) with check_rc=True on a command that exits rc
NetworksetupCmd(res, c, rc) ==
    IF rc # 0 THEN UpdateResult(Issue(res, c), c, rc) ELSE Issue(res, c)

\* run_module: build the module and the runner; check mode returns at once
Start ==
    /\ pc = "start"
    /\ pc' = IF check_mode THEN "exit_json" ELSE "validate_ports"
    /\ UNCHANGED <<interfaces, check_mode, host, idx, svc_idx, hardware_ports,
                   all_service_info, network_services, result, raised>>
    /\ UNCHANGED <<rt_vars, pm_vars, script_vars>>

\* validate_config, first loop: every MAC address names a hardware port
ValidatePorts ==
    /\ pc = "validate_ports"
    /\ LET c == Cmd("-listallhardwareports", <<>>) IN
       \E rc \in {0, 1} :
        IF rc # 0
        THEN /\ result' = NetworksetupCmd(result, c, rc)
             /\ raised' = TRUE /\ pc' = "finish"
             /\ UNCHANGED hardware_ports
        ELSE IF DOMAIN host.ports = {}
        THEN /\ result' = UpdateResult(Issue(result, c), c, rc)
             /\ raised' = TRUE /\ pc' = "finish"
             /\ UNCHANGED hardware_ports
        ELSE /\ result' = Issue(result, c)
             /\ hardware_ports' = PyDict(host.ports)
             /\ IF \E i \in 1..Len(interfaces) :
                      interfaces[i].mac_address.s \notin DOMAIN host.ports
                THEN raised' = TRUE /\ pc' = "finish"
                ELSE raised' = raised /\ pc' = "validate_hw"
    /\ UNCHANGED <<interfaces, check_mode, host, idx, svc_idx,
                   all_service_info, network_services>>
    /\ UNCHANGED <<rt_vars, pm_vars, script_vars>>

\* HardwarePortMediaConfig(...) built from the hardware options
MediaConfigOf(hardware) ==
    [speed |-> hardware.d.speed,
     duplex |-> IF hardware.d.duplex \in {PyStr("half"), PyStr("half-duplex")}
                THEN "half-duplex" ELSE "full-duplex",
     flow_control |-> hardware.d.flow_control,
     energy_efficient_ethernet |-> hardware.d.energy_efficient_ethernet]

\* validate_config, second loop body for one interface: the commands it runs
\* and whether it raises (and then whether _update_result ran)
ValidateHardwarePlan(interface) ==
    LET hardware == interface.hardware
        port == host.ports[interface.mac_address.s]
        hw == host.hw[port.name.s]
        mtu == IF Truthy(hardware) THEN hardware.d.mtu ELSE None
        speed == IF Truthy(hardware) THEN hardware.d.speed ELSE None
        cRange == Cmd("-listvalidMTUrange", <<port.name>>)
        cMedia == Cmd("-listvalidmedia", <<port.name>>)
        mtuCmds == IF Truthy(mtu) THEN <<cRange>> ELSE <<>>
        mtuBad ==
            /\ Truthy(mtu)
            /\ \/ hw.mtu_range = None
               \/ mtu.n < hw.mtu_range.min
               \/ mtu.n > hw.mtu_range.max
        mediaCmds == IF Truthy(speed) THEN <<cMedia>> ELSE <<>>
        mediaBad == Truthy(speed) /\ MediaConfigOf(hardware) \notin hw.valid_media
    IN
    IF mtuBad
    THEN [cmds |-> mtuCmds, raises |-> TRUE, update |-> hw.mtu_range = None,
          log |-> <<>>]
    ELSE [cmds |-> mtuCmds \o mediaCmds, raises |-> mediaBad, update |-> FALSE,
          log |-> <<>>]

\* a straight-line block of configure/validate code given as a plan: the
\* commands it runs in order, whether it then raises (after _update_result or
\* not) and the changelog entries it appends otherwise. The first k commands
\* exit 0; when k < Len(cmds) the next one exits nonzero and networksetup_cmd
\* raises.
RunPlan(res, plan, k) ==
    IF k < Len(plan.cmds)
    THEN [res |-> NetworksetupCmd(IssueAll(res, SubSeq(plan.cmds, 1, k)),
                                  plan.cmds[k + 1], 1),
          raised |-> TRUE]
    ELSE IF plan.raises
    THEN [res |-> IF plan.update
                  THEN UpdateResult(IssueAll(res, plan.cmds),
                                    plan.cmds[Len(plan.cmds)], 0)
                  ELSE IssueAll(res, plan.cmds),
          raised |-> TRUE]
    ELSE [res |-> LogAll(IssueAll(res, plan.cmds), plan.log), raised |-> FALSE]

\* the step at pc = name runs plan and goes on to next unless it raised
Phase(name, plan, next) ==
    /\ pc = name
    /\ \E k \in 0..Len(plan.cmds) :
        LET out == RunPlan(result, plan, k) IN
        /\ result' = out.res
        /\ raised' = out.raised
        /\ pc' = IF out.raised THEN "finish" ELSE next
    /\ UNCHANGED <<interfaces, check_mode, host, svc_idx, hardware_ports,
                   all_service_info, network_services>>
    /\ UNCHANGED <<rt_vars, pm_vars, script_vars>>

\* validate_config, second loop: one interface's hardware settings
ValidateHardware ==
    /\ Phase("validate_hw", ValidateHardwarePlan(interfaces[idx]),
             IF idx < Len(interfaces) THEN "validate_hw" ELSE "configure")
    /\ idx' = IF idx < Len(interfaces) /\ ~raised' THEN idx + 1
              ELSE IF raised' THEN idx ELSE 1

\* get_network_services_by_mac_address: the cache is empty
ListServices ==
    /\ pc = "configure"
    /\ network_services = None
    /\ LET c == Cmd("-listallnetworkservices", <<>>) IN
       \E rc \in {0, 1} :
        /\ result' = NetworksetupCmd(result, c, rc)
        /\ raised' = (rc # 0)
        /\ pc' = IF rc # 0 THEN "finish" ELSE "getinfo"
    /\ svc_idx' = 1
    /\ all_service_info' = <<>>
    /\ UNCHANGED <<interfaces, check_mode, host, idx, hardware_ports,
                   network_services>>
    /\ UNCHANGED <<rt_vars, pm_vars, script_vars>>

\* whether the ConfigurationError of a -getinfo that exits rc leaves the
\* enumeration loop: "except ConfigurationError: pass" catches it
GetInfoErrorPropagates(rc) == rc # 0
GetInfoErrorEscapes(rc) == FALSE

\* get_network_services_by_mac_address: one line of the service list, and
\* after the last line the cache is filled
GetInfo ==
    /\ pc = "getinfo"
    /\ IF svc_idx > Len(host.services)
       THEN /\ network_services' = PyDict(all_service_info)
            /\ pc' = "configure"
            /\ UNCHANGED <<svc_idx, all_service_info, result, raised>>
       ELSE LET service == host.services[svc_idx].name
                c == Cmd("-getinfo", <<service>>)
            IN
            IF service.s \in IGNORED_NETWORK_SERVICES
            THEN /\ svc_idx' = svc_idx + 1
                 /\ UNCHANGED <<pc, all_service_info, network_services, result, raised>>
            ELSE \E rc \in {0, 1} :
                 LET info == parse_getinfo(service, host.services[svc_idx].getinfo) IN
                 /\ result' = NetworksetupCmd(result, c, rc)
                 /\ IF GetInfoErrorEscapes(rc) \/ (rc = 0 /\ info.t = "IndexError")
                    THEN /\ raised' = TRUE /\ pc' = "finish"
                         /\ UNCHANGED <<svc_idx, all_service_info>>
                    ELSE /\ raised' = raised /\ pc' = pc
                         /\ svc_idx' = svc_idx + 1
                         /\ all_service_info' =
                               IF rc = 0 /\ info.t = "info" /\ info.address # None
                               THEN (info.address.s :> info) @@ all_service_info
                               ELSE all_service_info
                 /\ UNCHANGED network_services
    /\ UNCHANGED <<interfaces, check_mode, host, idx, hardware_ports>>
    /\ UNCHANGED <<rt_vars, pm_vars, script_vars>>

\* configure_interface: port = ports[mac_address]; service = services[mac_address]
Lookup ==
    /\ pc = "configure"
    /\ network_services # None
    /\ IF interfaces[idx].mac_address.s \in DOMAIN network_services.d
       THEN pc' = "ipv4" /\ raised' = raised
       ELSE pc' = "finish" /\ raised' = TRUE
    /\ UNCHANGED <<interfaces, check_mode, host, idx, svc_idx, hardware_ports,
                   all_service_info, network_services, result>>
    /\ UNCHANGED <<rt_vars, pm_vars, script_vars>>

ServiceOf(i) == network_services.d[interfaces[i].mac_address.s]
PortOf(i) == hardware_ports.d[interfaces[i].mac_address.s]

NoPlan == [cmds |-> <<>>, raises |-> FALSE, update |-> FALSE, log |-> <<>>]
Plan(cmds, log) == [cmds |-> cmds, raises |-> FALSE, update |-> FALSE, log |-> log]
RaisingPlan(cmds, update) ==
    [cmds |-> cmds, raises |-> TRUE, update |-> update, log |-> <<>>]

When(cond, entry) == IF cond THEN <<entry>> ELSE <<>>

\* which IPv4 option configure_interface applies
IPv4Option(config) ==
    IF Truthy(config.dhcp) THEN "dhcp"
    ELSE IF Truthy(config.dhcp_with_manual_address) THEN "dhcp_with_manual_address"
    ELSE IF Truthy(config.manual) THEN "manual"
    ELSE "none"

\* configure_interface: "Set interface to DHCP" ... "Set interface to manual"
IPv4Plan(config, service) ==
    LET n == service.name.s
        option == IPv4Option(config)
    IN
    IF option = "dhcp"
    THEN Plan(<<Cmd("-setdhcp", <<service.name>>)>>,
              When(service.configuration # "dhcp", Entry("ipv4", n, "dhcp")))
    ELSE IF option = "dhcp_with_manual_address"
    THEN LET new_ip_address == config.dhcp_with_manual_address.d.ip_address IN
         Plan(<<Cmd("-setmanualwithdhcprouter", <<service.name, new_ip_address>>)>>,
              IF service.configuration # "dhcp_with_manual_address"
              THEN <<Entry("ipv4", n, "dhcp_with_manual_address")>>
              ELSE When(PyNe(service.ip_address, new_ip_address),
                        Entry("ipv4", n, "dhcp_with_manual_address")))
    ELSE IF option = "manual"
    THEN LET new_ip_address == config.manual.d.ip_address
             new_subnet_mask == config.manual.d.subnet_mask
             new_router == config.manual.d.router
         IN
         Plan(<<Cmd("-setmanual",
                    <<service.name, new_ip_address, new_subnet_mask>> \o
                    (IF Truthy(new_router) THEN <<new_router>> ELSE <<>>))>>,
              When(service.configuration # "manual", Entry("ipv4", n, "manual")) \o
              When(PyNe(service.ip_address, new_ip_address),
                   Entry("ipv4", n, "ip_address")) \o
              When(PyNe(service.subnet_mask, new_subnet_mask),
                   Entry("ipv4", n, "subnet_mask")) \o
              When(PyNe(service.router, new_router), Entry("ipv4", n, "router")))
    ELSE NoPlan

\* configure_interface: "Configure IPv6"
IPv6Plan(config, service) ==
    LET n == service.name.s
        v6 == config.ipv6
    IN
    IF ~Truthy(v6) THEN NoPlan
    ELSE IF Truthy(v6.d.off)
    THEN Plan(<<Cmd("-setv6off", <<service.name>>)>>,
              When(service.ipv6_configuration # "off", Entry("ipv6", n, "off")))
    ELSE IF Truthy(v6.d.automatic)
    THEN Plan(<<Cmd("-setv6automatic", <<service.name>>)>>,
              When(service.ipv6_configuration # "automatic",
                   Entry("ipv6", n, "automatic")))
    ELSE IF Truthy(v6.d.link_local)
    THEN Plan(<<Cmd("-setv6LinkLocal", <<service.name>>)>>,
              When(service.ipv6_configuration # "link_local",
                   Entry("ipv6", n, "link_local")))
    ELSE IF Truthy(v6.d.manual)
    THEN LET new_address == v6.d.manual.d.address
             new_prefix_length == v6.d.manual.d.prefix_length
             new_router == v6.d.manual.d.router
         IN
         Plan(<<Cmd("-setv6manual",
                    <<service.name, new_address, new_prefix_length, Fmt(new_router)>>)>>,
              When(PyNe(service.ipv6_address, new_address),
                   Entry("ipv6", n, "address")) \o
              When(PyNe(service.ipv6_router, new_router),
                   Entry("ipv6", n, "router")) \o
              When(PyNe(service.ipv6_prefix_length, new_prefix_length),
                   Entry("ipv6", n, "prefix_length")))
    ELSE NoPlan

SetOf(seq) == {seq[i] : i \in 1..Len(seq)}

\* whether the "Set DNS servers" / "Set search domains" branch logs a change
ExistingNotWanted(existing, wanted) == SetOf(existing) \ SetOf(wanted) # {}

\* the arguments of -setdnsservers / -setsearchdomains for a non-empty list
FirstOnly(items) == <<items[1]>>
ListArgs(items) == items

\* configure_interface: "Clear DNS servers if empty list provided" and
\* "Set DNS servers"; the same code serves search domains with other words
ListPlan(group, getop, setop, wanted, existing, service) ==
    LET n == service.name.s
        get == Cmd(getop, <<service.name>>)
    IN
    IF wanted # None /\ ~Truthy(wanted)
    THEN Plan(<<get, Cmd(setop, <<service.name, PyStr("Empty")>>)>>,
              When(existing # <<>>, Entry(group, n, "clear")))
    ELSE IF Truthy(wanted)
    THEN Plan(<<get, Cmd(setop, <<service.name>> \o ListArgs(wanted.items))>>,
              When(ExistingNotWanted(existing, wanted.items), Entry(group, n, "set")))
    ELSE NoPlan

DnsPlan(config, service) ==
    ListPlan("dns_servers", "-getdnsservers", "-setdnsservers",
             config.dns_servers, host.dns[service.name.s], service)

SearchPlan(config, service) ==
    ListPlan("search_domains", "-getsearchdomains", "-setsearchdomains",
             config.search_domains, host.search[service.name.s], service)

\* a speed table whose 10 and 100 entries name the next faster medium
SpeedMappingShifted ==
    (10 :> "100baseTX") @@ (100 :> "1000baseT") @@ (1000 :> "1000baseT")

SPEED_MAPPING ==
    (10 :> "10baseT/UTP") @@ (100 :> "100baseTX") @@ (1000 :> "1000baseT")

Autoselect == PyStr("autoselect")

\* whether the "speed not provided" branch logs a change:
\* (media.current == 'autoselect') or (media.current.speed != speed)
AutoselectLogs(current, speed) ==
    \/ current = Autoselect
    \/ PyNe(current.speed, speed)

\* configure_interface: get_port_media_configuration and the media half of
\* the hardware configuration
MediaPlan(config, port) ==
    LET p == port.name.s
        media == host.hw[p].media
        get == Cmd("-getmedia", <<port.name>>)
    IN
    IF ~media.wellformed THEN RaisingPlan(<<get>>, TRUE)
    ELSE IF media.current = None \/ media.active = None
    THEN RaisingPlan(<<get>>, FALSE)
    ELSE IF ~Truthy(config.hardware)
    THEN Plan(<<get, Cmd("-setMTUAndMediaAutomatically", <<port.name>>)>>,
              When(media.current # Autoselect, Entry("media_mtu", p, "autoselect")))
    ELSE LET speed == config.hardware.d.speed IN
         IF ~Truthy(speed)
         THEN Plan(<<get, Cmd("-setmedia", <<port.name, Autoselect>>)>>,
                   When(AutoselectLogs(media.current, speed),
                        Entry("media", p, "autoselect")))
         ELSE LET media_config == MediaConfigOf(config.hardware) IN
              Plan(<<get,
                     Cmd("-setmedia",
                         <<port.name, PyStr(SPEED_MAPPING[speed.n]),
                           PyStr(media_config.duplex)>> \o
                         (IF Truthy(media_config.flow_control)
                          THEN <<PyStr("flow-control")>> ELSE <<>>) \o
                         (IF Truthy(media_config.energy_efficient_ethernet)
                          THEN <<PyStr("energy-efficient-ethernet")>> ELSE <<>>))>>,
                   When(media.current = Autoselect \/ media.current # media_config,
                        Entry("media", p, "set")))

\* configure_interface: get_port_mtu and the MTU half of the hardware
\* configuration (skipped when hardware is not given)
MtuPlan(config, port) ==
    LET p == port.name.s
        existing_mtu == host.hw[p].mtu
        get == Cmd("-getMTU", <<port.name>>)
    IN
    IF ~Truthy(config.hardware) THEN NoPlan
    ELSE IF existing_mtu = None THEN RaisingPlan(<<get>>, TRUE)
    ELSE LET mtu == config.hardware.d.mtu IN
         IF ~Truthy(mtu)
         THEN Plan(<<get, Cmd("-setMTU", <<port.name, PyInt(DefaultMTU)>>)>>,
                   When(existing_mtu.current # DefaultMTU, Entry("mtu", p, "default")))
         ELSE Plan(<<get, Cmd("-setMTU", <<port.name, mtu>>)>>,
                   When(existing_mtu.current # mtu.n, Entry("mtu", p, "set")))

\* a rename that is skipped when the service already has the name
RenameOnlyWhenDifferent(config, service) ==
    IF Truthy(config.name) /\ PyNe(service.name, config.name)
    THEN [cmds |-> <<[op |-> "-renamenetworkservice",
                      args |-> <<service.name, config.name>>]>>,
          raises |-> FALSE, update |-> FALSE,
          log |-> <<[group |-> "name", target |-> service.name.s, text |-> "rename"]>>]
    ELSE [cmds |-> <<>>, raises |-> FALSE, update |-> FALSE, log |-> <<>>]

\* configure_interface: "Set interface name"
NamePlan(config, service) ==
    IF Truthy(config.name)
    THEN Plan(<<Cmd("-renamenetworkservice", <<service.name, config.name>>)>>,
              When(PyNe(service.name, config.name),
                   Entry("name", service.name.s, "rename")))
    ELSE NoPlan

ConfigureIPv4 ==
    /\ Phase("ipv4", IPv4Plan(interfaces[idx], ServiceOf(idx)), "ipv6")
    /\ UNCHANGED idx

ConfigureIPv6 ==
    /\ Phase("ipv6", IPv6Plan(interfaces[idx], ServiceOf(idx)), "dns")
    /\ UNCHANGED idx

ConfigureDns ==
    /\ Phase("dns", DnsPlan(interfaces[idx], ServiceOf(idx)), "search")
    /\ UNCHANGED idx

ConfigureSearch ==
    /\ Phase("search", SearchPlan(interfaces[idx], ServiceOf(idx)), "media")
    /\ UNCHANGED idx

ConfigureMedia ==
    /\ Phase("media", MediaPlan(interfaces[idx], PortOf(idx)), "mtu")
    /\ UNCHANGED idx

ConfigureMtu ==
    /\ Phase("mtu", MtuPlan(interfaces[idx], PortOf(idx)), "name")
    /\ UNCHANGED idx

\* the last block of configure_interface; run() then takes the next interface
ConfigureName ==
    /\ Phase("name", NamePlan(interfaces[idx], ServiceOf(idx)),
             IF idx < Len(interfaces) THEN "configure" ELSE "finish")
    /\ idx' = IF idx < Len(interfaces) /\ ~raised' THEN idx + 1 ELSE idx

\* the value run_module gives result['changed'] on the way out
ChangedOnExit(res, exc) ==
    IF exc /\ res.changelog # <<>> THEN TRUE ELSE res.changed

\* run_module: except Exception -> fail_json, else -> exit_json
Finish ==
    /\ pc = "finish"
    /\ result' = [result EXCEPT !.changed = ChangedOnExit(result, raised)]
    /\ pc' = IF raised THEN "fail_json" ELSE "exit_json"
    /\ UNCHANGED <<interfaces, check_mode, host, idx, svc_idx, hardware_ports,
                   all_service_info, network_services, raised>>
    /\ UNCHANGED <<rt_vars, pm_vars, script_vars>>

NetNext ==
    \/ Start \/ ValidatePorts \/ ValidateHardware
    \/ ListServices \/ GetInfo \/ Lookup
    \/ ConfigureIPv4 \/ ConfigureIPv6 \/ ConfigureDns \/ ConfigureSearch
    \/ ConfigureMedia \/ ConfigureMtu \/ ConfigureName
    \/ Finish

(***************************************************************************)
(* Module parameters and hosts of the runs that are checked                *)
(***************************************************************************)
Mac1 == PyStr("d8:ec:5e:11:77:c5")
Mac2 == PyStr("38:f9:d3:16:de:d7")
Ip1 == PyStr("192.168.1.40")
Ip2 == PyStr("10.10.10.100")
Mask1 == PyStr("255.255.255.0")
Router1 == PyStr("192.168.1.1")
V6Addr1 == PyStr("fd00::40")
Dns1 == PyStr("1.1.1.1")
Dns2 == PyStr("8.8.8.8")
Domain1 == PyStr("lan")
Domain2 == PyStr("home.arpa")

\* an entry of the interfaces list as the argument spec delivers it: every
\* option is present, None when not given
Iface(mac, name, v4, ipv6, dns_servers, search_domains, hardware) ==
    [mac_address |-> mac, name |-> name,
     dhcp |-> v4.dhcp, dhcp_with_manual_address |-> v4.dhcp_with_manual_address,
     manual |-> v4.manual, ipv6 |-> ipv6, dns_servers |-> dns_servers,
     search_domains |-> search_domains, hardware |-> hardware]

Dhcp(b) == [dhcp |-> PyBool(b), dhcp_with_manual_address |-> None, manual |-> None]
DhcpManualAddress(ip) ==
    [dhcp |-> None, dhcp_with_manual_address |-> PyDict([ip_address |-> ip]),
     manual |-> None]
Manual(ip, mask, router) ==
    [dhcp |-> None, dhcp_with_manual_address |-> None,
     manual |-> PyDict([ip_address |-> ip, subnet_mask |-> mask, router |-> router])]

IPv6Of(off, automatic, link_local, manual) ==
    PyDict([off |-> off, automatic |-> automatic, link_local |-> link_local,
            manual |-> manual])
IPv6Off == IPv6Of(PyBool(TRUE), None, None, None)
IPv6Automatic == IPv6Of(None, PyBool(TRUE), None, None)
IPv6LinkLocal == IPv6Of(None, None, PyBool(TRUE), None)
IPv6Manual(address, prefix_length, router) ==
    IPv6Of(None, None, None,
           PyDict([address |-> address, prefix_length |-> PyInt(prefix_length),
                   router |-> router]))

Hardware(speed, duplex, flow_control, energy_efficient_ethernet, mtu) ==
    PyDict([speed |-> speed, duplex |-> duplex, flow_control |-> flow_control,
            energy_efficient_ethernet |-> energy_efficient_ethernet, mtu |-> mtu])
HardwareDefaults == Hardware(None, None, None, None, None)
HardwareMtu(mtu) == Hardware(None, None, None, None, PyInt(mtu))
HardwareGigabit(mtu) ==
    Hardware(PyInt(1000), PyStr("full-duplex"), PyBool(FALSE), PyBool(FALSE), mtu)

GigabitFull ==
    [speed |-> PyInt(1000), duplex |-> "full-duplex", flow_control |-> PyBool(FALSE),
     energy_efficient_ethernet |-> PyBool(FALSE)]
FastHalf ==
    [speed |-> PyInt(100), duplex |-> "half-duplex", flow_control |-> PyBool(FALSE),
     energy_efficient_ethernet |-> PyBool(FALSE)]
GigabitFlowControl ==
    [speed |-> PyInt(1000), duplex |-> "full-duplex", flow_control |-> PyBool(TRUE),
     energy_efficient_ethernet |-> PyBool(TRUE)]

\* the lines of a -getinfo output that parse_getinfo looks for
GetInfoOut(header, ip_address, subnet_mask, router, address, ipv6, v6addr_line, ipv6_router, ipv6_prefix_length) ==
    [header |-> header, ip_address |-> ip_address, subnet_mask |-> subnet_mask,
     router |-> router, address |-> address, ipv6 |-> ipv6,
     v6addr_line |-> v6addr_line, ipv6_router |-> ipv6_router,
     ipv6_prefix_length |-> ipv6_prefix_length]

InfoDhcp(mac) ==
    GetInfoOut("DHCP", Ip2, Mask1, Router1, mac, "Off", FALSE, None, None)
InfoDhcpAutomaticV6(mac) ==
    GetInfoOut("DHCP", Ip2, Mask1, Router1, mac, "Automatic", FALSE, None, None)
InfoDhcpManualAddress(mac, ip) ==
    GetInfoOut("Manually Using DHCP Router", ip, Mask1, Router1, mac, "absent",
               FALSE, None, None)
InfoManual(mac, ip, router) ==
    GetInfoOut("Manual", ip, Mask1, router, mac, "Off", FALSE, None, None)
InfoV6AddressLine(mac) ==
    GetInfoOut("DHCP", Ip2, Mask1, Router1, mac, "Automatic", TRUE, None, None)
InfoUnparsable == GetInfoOut("PPPoE", None, None, None, None, "absent", FALSE, None, None)
InfoNoAddress == GetInfoOut("DHCP", None, None, None, None, "Off", FALSE, None, None)

Media(current) == [wellformed |-> TRUE, current |-> current, active |-> GigabitFull]
MediaMalformed == [wellformed |-> FALSE, current |-> None, active |-> None]
MediaNoLink == [wellformed |-> TRUE, current |-> Autoselect, active |-> None]
Mtu(n) == [current |-> n, active |-> n]
MtuRange(lo, hi) == [min |-> lo, max |-> hi]

Port(name, device, mac) == [name |-> PyStr(name), device |-> PyStr(device), address |-> mac]
Service(name, getinfo) == [name |-> PyStr(name), getinfo |-> getinfo]
PortState(media, mtu, mtu_range, valid_media) ==
    [media |-> media, mtu |-> mtu, mtu_range |-> mtu_range, valid_media |-> valid_media]

\* a Mac with an Ethernet port (the one the runs configure) and a Wi-Fi port
HostWith(ethernet_info, wifi_info, dns, search, media, mtu) ==
    [ports |-> (Mac1.s :> Port("Ethernet", "en0", Mac1)) @@
               (Mac2.s :> Port("Wi-Fi", "en1", Mac2)),
     services |-> <<Service("Thunderbolt Bridge", InfoNoAddress),
                    Service("Ethernet", ethernet_info),
                    Service("Wi-Fi", wifi_info)>>,
     dns |-> ("Ethernet" :> dns) @@ ("Wi-Fi" :> <<>>),
     search |-> ("Ethernet" :> search) @@ ("Wi-Fi" :> <<>>),
     hw |-> ("Ethernet" :> PortState(media, mtu, MtuRange(1280, 9000),
                                     {GigabitFull, FastHalf})) @@
            ("Wi-Fi" :> PortState(Media(Autoselect), Mtu(DefaultMTU),
                                  MtuRange(1280, 1500), {}))]

RunsOf(V4, V6, DnsLists, SearchLists, Hardwares, Names, Infos, HostDns, HostSearch, Medias, Mtus) ==
    {[interfaces |-> <<Iface(Mac1, name, v4, v6, dns, search, hardware)>>,
      host |-> HostWith(info, InfoDhcp(Mac2), hdns, hsearch, media, mtu)] :
        v4 \in V4, v6 \in V6, dns \in DnsLists, search \in SearchLists,
        hardware \in Hardwares, name \in Names, info \in Infos,
        hdns \in HostDns, hsearch \in HostSearch, media \in Medias, mtu \in Mtus}

\* runs in which every setting group is declared or not, and is or is not
\* already in place on the host
CoreRuns ==
    RunsOf({Dhcp(TRUE), Dhcp(FALSE), Manual(Ip1, Mask1, Router1)},
           {None, IPv6Off},
           {None, PyList(<<Dns1>>)},
           {None, PyList(<<>>)},
           {None, HardwareDefaults, HardwareGigabit(PyInt(9000))},
           {None, PyStr("Ethernet")},
           {InfoDhcp(Mac1), InfoManual(Mac1, Ip1, Router1)},
           {<<>>, <<Dns1>>},
           {<<>>},
           {Media(Autoselect), Media(GigabitFull)},
           {Mtu(DefaultMTU), Mtu(9000)})

BaseHost ==
    HostWith(InfoDhcp(Mac1), InfoDhcp(Mac2), <<>>, <<>>, Media(Autoselect),
             Mtu(DefaultMTU))

OddHosts ==
    {[BaseHost EXCEPT !.ports = <<>>],
     [BaseHost EXCEPT !.ports = (Mac2.s :> Port("Wi-Fi", "en1", Mac2))],
     [BaseHost EXCEPT !.services[2].getinfo = InfoUnparsable],
     [BaseHost EXCEPT !.services[2].getinfo = InfoNoAddress],
     [BaseHost EXCEPT !.services[3].getinfo = InfoV6AddressLine(Mac2)],
     [BaseHost EXCEPT !.services[3].getinfo = InfoDhcp(Mac1)],
     [BaseHost EXCEPT !.hw["Ethernet"].media = MediaMalformed],
     [BaseHost EXCEPT !.hw["Ethernet"].media = MediaNoLink],
     [BaseHost EXCEPT !.hw["Ethernet"].mtu = None],
     [BaseHost EXCEPT !.hw["Ethernet"].mtu_range = None],
     [BaseHost EXCEPT !.hw["Ethernet"].valid_media = {FastHalf}]}

\* runs on hosts whose query output does not parse, or lacks the port
OddRuns ==
    {[interfaces |-> <<Iface(Mac1, None, Dhcp(TRUE), None, None, None, hardware)>>,
      host |-> h] :
        hardware \in {None, HardwareGigabit(PyInt(9000)), HardwareMtu(576)},
        h \in OddHosts}

\* runs that configure the Ethernet and the Wi-Fi interface
TwoInterfaceRuns ==
    {[interfaces |->
        <<Iface(Mac1, None, v4, None, dns, None, None),
          Iface(Mac2, name, Dhcp(TRUE), None, None, None, hardware)>>,
      host |-> HostWith(InfoDhcp(Mac1), info2, <<>>, <<>>, Media(Autoselect),
                        Mtu(DefaultMTU))] :
        v4 \in {Dhcp(TRUE), DhcpManualAddress(Ip1)},
        dns \in {None, PyList(<<Dns1>>)},
        name \in {None, PyStr("Wi-Fi"), PyStr("WLAN")},
        hardware \in {None, HardwareDefaults},
        info2 \in {InfoDhcp(Mac2), InfoManual(Mac2, Ip2, None)}}

\* runs over the IPv4 and IPv6 options and the configurations -getinfo reports
AddressRuns ==
    RunsOf({Dhcp(TRUE), Dhcp(FALSE), DhcpManualAddress(Ip1), DhcpManualAddress(Ip2),
            Manual(Ip1, Mask1, Router1), Manual(Ip1, Mask1, None)},
           {None, IPv6Off, IPv6Automatic, IPv6LinkLocal,
            IPv6Manual(V6Addr1, 64, None)},
           {None}, {None}, {None}, {None},
           {InfoDhcp(Mac1), InfoDhcpAutomaticV6(Mac1),
            InfoDhcpManualAddress(Mac1, Ip1), InfoManual(Mac1, Ip1, Router1)},
           {<<>>}, {<<>>}, {Media(Autoselect)}, {Mtu(DefaultMTU)})

\* runs over the DNS server and search domain lists, declared and on the host
ListRuns ==
    RunsOf({Dhcp(TRUE)}, {None},
           {None, PyList(<<>>), PyList(<<Dns1>>), PyList(<<Dns1, Dns2>>),
            PyList(<<Dns2, Dns1>>)},
           {None, PyList(<<>>), PyList(<<Domain1>>), PyList(<<Domain2, Domain1>>)},
           {None}, {None}, {InfoDhcp(Mac1)},
           {<<>>, <<Dns1>>, <<Dns2>>, <<Dns1, Dns2>>},
           {<<>>, <<Domain1>>, <<Domain1, Domain2>>},
           {Media(Autoselect)}, {Mtu(DefaultMTU)})

\* runs over the hardware option: absent, without speed, with and without
\* mtu, every duplex spelling, flags on and off, and a speed given alone
HardwareRuns ==
    {[interfaces |-> <<Iface(Mac1, None, Dhcp(TRUE), None, None, None, hardware)>>,
      host |-> [HostWith(InfoDhcp(Mac1), InfoDhcp(Mac2), <<>>, <<>>, media, mtu)
                  EXCEPT !.hw["Ethernet"].valid_media =
                            {GigabitFull, FastHalf, GigabitFlowControl}]] :
        hardware \in {None, HardwareDefaults, HardwareMtu(9000), HardwareGigabit(None),
                      Hardware(PyInt(100), PyStr("half"), PyBool(FALSE), PyBool(FALSE),
                               PyInt(1280)),
                      Hardware(PyInt(100), PyStr("half-duplex"), PyBool(FALSE),
                               PyBool(FALSE), None),
                      Hardware(PyInt(1000), PyStr("full"), PyBool(TRUE), PyBool(TRUE),
                               PyInt(9000)),
                      Hardware(PyInt(1000), None, None, None, None)},
        media \in {Media(Autoselect), Media(GigabitFlowControl), Media(FastHalf)},
        mtu \in {Mtu(DefaultMTU), Mtu(9000)}}

NetRuns ==
    CoreRuns \cup OddRuns \cup TwoInterfaceRuns \cup AddressRuns \cup ListRuns \cup
    HardwareRuns


(***************************************************************************)
(* download_installer (install_hatch.py)                                   *)
(*                                                                         *)
(* dl_attempts holds the outcome of every attempt made, dl_sleeps every    *)
(* time.sleep with the attempt it precedes, dl_writes the attempts that    *)
(* opened the destination for writing, dl_dest what the file then holds.   *)
(***************************************************************************)
MaxDownloadRetries == 3

\* the values main() lets --retry-delay take
RetryDelays == {0, 2, 3}

\* what one pass through the try block can do: succeed, or raise in urlopen
\* (URLError), in response.read() (another exception), in Path(dest).open
\* (nothing written) or in f.write (the file is already truncated)
DownloadOutcomes == {"ok", "URLError", "read_error", "open_error", "write_error"}

DownloadIdle ==
    /\ dl_retries = 0 /\ dl_delay = 0 /\ dl_attempt = 0 /\ dl_attempts = <<>>
    /\ dl_sleeps = <<>> /\ dl_dest = "absent" /\ dl_writes = <<>>
    /\ dl_pc = "off" /\ dl_return = None

DownloadInit ==
    /\ dl_retries \in 0..MaxDownloadRetries
    /\ dl_delay \in RetryDelays
    /\ dl_attempt = 1
    /\ dl_attempts = <<>>
    /\ dl_sleeps = <<>>
    /\ dl_dest \in {"absent", "old"}
    /\ dl_writes = <<>>
    /\ dl_pc = "loop"
    /\ dl_return = None

\* delay = RETRY_DELAY_SECONDS * (2 ** (attempt - 2))
DownloadDelayFromAttempt(delay, attempt) == delay * Pow(2, attempt - 1)
DownloadDelay(delay, attempt) == delay * Pow(2, attempt - 2)

\* with Path(dest).open('wb') as f: f.write(content)
DestAfter(dest, outcome) ==
    IF outcome = "ok" THEN "installer"
    ELSE IF outcome = "write_error" THEN "truncated"
    ELSE dest

\* one iteration of "for attempt in range(1, DOWNLOAD_RETRIES + 1)"
DownloadAttempt ==
    /\ dl_pc = "loop"
    /\ dl_attempt <= dl_retries
    /\ dl_sleeps' =
          IF dl_attempt > 1
          THEN Append(dl_sleeps, [before |-> dl_attempt,
                                  seconds |-> DownloadDelay(dl_delay, dl_attempt)])
          ELSE dl_sleeps
    /\ \E outcome \in DownloadOutcomes :
        /\ dl_attempts' = Append(dl_attempts, outcome)
        /\ dl_dest' = DestAfter(dl_dest, outcome)
        /\ dl_writes' = IF outcome \in {"ok", "write_error"}
                        THEN Append(dl_writes, dl_attempt) ELSE dl_writes
        /\ IF outcome = "ok"
           THEN dl_pc' = "returned" /\ dl_return' = PyBool(TRUE) /\ UNCHANGED dl_attempt
           ELSE IF dl_attempt = dl_retries
           THEN dl_pc' = "returned" /\ dl_return' = PyBool(FALSE) /\ UNCHANGED dl_attempt
           ELSE dl_attempt' = dl_attempt + 1 /\ UNCHANGED <<dl_pc, dl_return>>
    /\ UNCHANGED <<dl_retries, dl_delay>>
    /\ UNCHANGED <<rt_vars, pm_vars, net_vars, inv_vars, env_vars>>

\* the "return False" after the loop, reached when the range is empty
DownloadAfterLoop ==
    /\ dl_pc = "loop"
    /\ dl_attempt > dl_retries
    /\ dl_pc' = "returned"
    /\ dl_return' = PyBool(FALSE)
    /\ UNCHANGED <<dl_retries, dl_delay, dl_attempt, dl_attempts, dl_sleeps,
                   dl_dest, dl_writes>>
    /\ UNCHANGED <<rt_vars, pm_vars, net_vars, inv_vars, env_vars>>

DownloadNext == DownloadAttempt \/ DownloadAfterLoop

\* the clauses of C15 that do not concern the destination file
C15_AttemptsAndSleeps ==
    /\ Len(dl_attempts) <= dl_retries
    /\ \A k \in 1..Len(dl_attempts) : dl_attempts[k] = "ok" => k = Len(dl_attempts)
    /\ dl_pc = "loop" => \A k \in 1..Len(dl_attempts) : dl_attempts[k] # "ok"
    /\ dl_pc = "returned" =>
          /\ dl_return = PyBool(TRUE) <=>
                \E k \in 1..Len(dl_attempts) : dl_attempts[k] = "ok"
          /\ dl_return = PyBool(FALSE) =>
                /\ Len(dl_attempts) = dl_retries
                /\ \A k \in 1..Len(dl_attempts) : dl_attempts[k] # "ok"
    /\ Len(dl_sleeps) = (IF Len(dl_attempts) = 0 THEN 0 ELSE Len(dl_attempts) - 1)
    /\ \A j \in 1..Len(dl_sleeps) :
          /\ dl_sleeps[j].before = j + 1
          /\ dl_sleeps[j].seconds = dl_delay * (2 ^ (j - 1))

\* C15: with DOWNLOAD_RETRIES >= 1, download_installer makes at most
\* DOWNLOAD_RETRIES attempts, none after a success, returns True if and only
\* if some attempt succeeded and False only after all attempts failed,
\* sleeps RETRY_DELAY_SECONDS * 2^(n-2) before attempt n > 1 and at no other
\* time, and writes the destination file only on a successful attempt.
C15_DownloadRetries ==
    dl_retries >= 1 =>
        /\ C15_AttemptsAndSleeps
        /\ \A j \in 1..Len(dl_writes) : dl_attempts[dl_writes[j]] = "ok"
        /\ dl_dest \in {"absent", "old"} \/ dl_return = PyBool(TRUE)

\* C15 as the code has it: the same, except that the destination file is
\* opened for writing in every attempt whose download (urlopen and read)
\* succeeded; when the write then fails the attempt counts as failed and is
\* retried, and the file is left truncated unless a later attempt succeeds.
\* A file that is not opened keeps its content.
C15_DownloadRetriesWriteMayFail ==
    dl_retries >= 1 =>
        /\ C15_AttemptsAndSleeps
        /\ \A j \in 1..Len(dl_writes) :
              dl_attempts[dl_writes[j]] \in {"ok", "write_error"}
        /\ \A k \in 1..Len(dl_attempts) :
              dl_attempts[k] \in {"ok", "write_error"} =>
                  \E j \in 1..Len(dl_writes) : dl_writes[j] = k
        /\ dl_return = PyBool(TRUE) => dl_dest = "installer"
        /\ dl_writes = <<>> => dl_dest \in {"absent", "old"}
        /\ (dl_writes # <<>> /\ dl_return # PyBool(TRUE)) => dl_dest = "truncated"

\* all three attempts were made: the first could not connect, the second
\* failed while writing the file, the third succeeded; two sleeps, 2 then 4
C15_Witness ==
    /\ dl_pc = "returned"
    /\ dl_retries = 3 /\ dl_delay = 2
    /\ dl_attempts = <<"URLError", "write_error", "ok">>
    /\ dl_return = PyBool(TRUE)
    /\ dl_sleeps = <<[before |-> 2, seconds |-> 2], [before |-> 3, seconds |-> 4]>>
    /\ dl_writes = <<2, 3>>

(***************************************************************************)
(* run.py: cmd_update_inventory                                            *)
(*                                                                         *)
(* inv_dir is what INVENTORY_DIR is on disk, inv_dir0 what it was when the *)
(* command started; inv_calls holds every shutil.rmtree and git call made, *)
(* in order, with its outcome; inv_op is the decorated function chosen.    *)
(***************************************************************************)
\* max_attempts of both decorated functions
InventoryAttempts == 3

\* INVENTORY_DIR: missing, a directory without .git, a git clone, or a
\* symbolic link to a directory without .git
InventoryDirs == {"missing", "plain", "repo", "symlink"}

InventoryIdle ==
    /\ inv_dir = "missing" /\ inv_dir0 = "missing" /\ inv_force = FALSE
    /\ inv_op = "none" /\ inv_attempt = 0 /\ inv_calls = <<>>
    /\ inv_sleeps = <<>> /\ inv_last_exception = None /\ inv_pc = "off"

InventoryInit ==
    /\ inv_dir \in InventoryDirs
    /\ inv_dir0 = inv_dir
    /\ inv_force \in BOOLEAN
    /\ inv_op = "none"
    /\ inv_attempt = 0
    /\ inv_calls = <<>>
    /\ inv_sleeps = <<>>
    /\ inv_last_exception = None
    /\ inv_pc = "start"

\* the decorated function the if / elif / else calls: pull when
\* INVENTORY_DIR.exists() and (INVENTORY_DIR / '.git').exists(), which both
\* follow symbolic links
PullWheneverDirExists(dir) == IF dir # "missing" THEN "pull" ELSE "clone"
ChosenOperation(dir) == IF dir # "missing" /\ dir = "repo" THEN "pull" ELSE "clone"

\* shutil.rmtree refuses a symbolic link and can fail on a directory it may
\* not modify
RmtreeOutcomes(dir) == IF dir = "symlink" THEN {"OSError"} ELSE {"ok", "OSError"}

\* delay of the two retry_on_failure decorators; backoff is 2.0 for both
InventoryDelay(op) == IF op = "pull" THEN 2 ELSE 5
InventoryBackoff == 2

Call(cmd, outcome) == [cmd |-> cmd, outcome |-> outcome]

\* the body of the try block up to the call of the decorated function, and
\* the except clause when rmtree raises
UpdateInventoryChoose ==
    /\ inv_pc = "start"
    /\ IF ChosenOperation(inv_dir) = "pull"
       THEN /\ inv_op' = "pull" /\ inv_pc' = "loop" /\ inv_attempt' = 1
            /\ UNCHANGED <<inv_dir, inv_calls>>
       ELSE IF inv_dir # "missing"
       THEN \E outcome \in RmtreeOutcomes(inv_dir) :
               /\ inv_calls' = Append(inv_calls, Call("rmtree", outcome))
               /\ IF outcome = "ok"
                  THEN /\ inv_dir' = "missing"
                       /\ inv_op' = "clone" /\ inv_pc' = "loop" /\ inv_attempt' = 1
                  ELSE /\ inv_pc' = "exit1"
                       /\ UNCHANGED <<inv_dir, inv_op, inv_attempt>>
       ELSE /\ inv_op' = "clone" /\ inv_pc' = "loop" /\ inv_attempt' = 1
            /\ UNCHANGED <<inv_dir, inv_calls>>
    /\ UNCHANGED <<inv_dir0, inv_force, inv_sleeps, inv_last_exception>>
    /\ UNCHANGED <<rt_vars, pm_vars, net_vars, dl_vars, env_vars>>

\* the git calls pull_inventory_repo makes before git pull when --force is
\* given: git status --porcelain, and git reset --hard HEAD when it printed
\* something; a CalledProcessError of either is passed over
ForceCalls(status, reset) ==
    IF status = "dirty"
    THEN <<Call("git status", status), Call("git reset", reset)>>
    ELSE <<Call("git status", status)>>

\* what the wrapper does with the outcome of one call of the decorated
\* function: return, or remember the exception, sleep when attempts remain
\* and go round the loop
InventoryAfterCall(outcome) ==
    IF outcome = "ok"
    THEN /\ inv_pc' = "returned"
         /\ UNCHANGED <<inv_attempt, inv_sleeps, inv_last_exception>>
    ELSE /\ inv_last_exception' = RememberException(inv_last_exception, PyExc(outcome))
         /\ inv_sleeps' =
               IF MoreAttempts(inv_attempt, InventoryAttempts)
               THEN Append(inv_sleeps, WaitTime(InventoryDelay(inv_op),
                                                InventoryBackoff, inv_attempt))
               ELSE inv_sleeps
         /\ inv_attempt' = inv_attempt + 1
         /\ UNCHANGED inv_pc

GitOutcomes == {"ok", "CalledProcessError", "TimeoutExpired"}

\* one attempt of the wrapped pull_inventory_repo
pull_inventory_repo ==
    /\ inv_pc = "loop" /\ inv_op = "pull"
    /\ InLoop(inv_attempt, InventoryAttempts)
    /\ \E status \in {"clean", "dirty", "CalledProcessError"},
          reset \in {"ok", "CalledProcessError"}, outcome \in GitOutcomes :
        /\ inv_calls' = inv_calls
                        \o (IF inv_force THEN ForceCalls(status, reset) ELSE <<>>)
                        \o <<Call("git pull", outcome)>>
        /\ InventoryAfterCall(outcome)
    /\ UNCHANGED <<inv_dir, inv_dir0, inv_force, inv_op>>
    /\ UNCHANGED <<rt_vars, pm_vars, net_vars, dl_vars, env_vars>>

\* one attempt of the wrapped clone_inventory_repo; a clone that fails
\* leaves no directory behind
clone_inventory_repo ==
    /\ inv_pc = "loop" /\ inv_op = "clone"
    /\ InLoop(inv_attempt, InventoryAttempts)
    /\ \E outcome \in GitOutcomes :
        /\ inv_calls' = Append(inv_calls, Call("git clone", outcome))
        /\ inv_dir' = IF outcome = "ok" THEN "repo" ELSE inv_dir
        /\ InventoryAfterCall(outcome)
    /\ UNCHANGED <<inv_dir0, inv_force, inv_op>>
    /\ UNCHANGED <<rt_vars, pm_vars, net_vars, dl_vars, env_vars>>

\* the wrapper re-raises the last exception after the loop, and the except
\* clause of cmd_update_inventory turns it into sys.exit(1)
UpdateInventoryFailed ==
    /\ inv_pc = "loop"
    /\ ~InLoop(inv_attempt, InventoryAttempts)
    /\ inv_pc' = IF inv_last_exception # None THEN "exit1" ELSE "returned"
    /\ UNCHANGED <<inv_dir, inv_dir0, inv_force, inv_op, inv_attempt, inv_calls,
                   inv_sleeps, inv_last_exception>>
    /\ UNCHANGED <<rt_vars, pm_vars, net_vars, dl_vars, env_vars>>

InventoryNext ==
    UpdateInventoryChoose \/ pull_inventory_repo \/ clone_inventory_repo
        \/ UpdateInventoryFailed

\* the calls of one command, as positions in inv_calls
CallsOf(cmd) == { k \in 1..Len(inv_calls) : inv_calls[k].cmd = cmd }
Ran(cmd) == CallsOf(cmd) # {}
FailedCallsOf(cmd) == { k \in CallsOf(cmd) : inv_calls[k].outcome # "ok" }
InventoryDone == inv_pc \in {"returned", "exit1"}
RemovalFailed == \E k \in CallsOf("rmtree") : inv_calls[k].outcome # "ok"

\* the clauses of C17 about which commands run and in which order
C17_PullRemoveOrder ==
    /\ Ran("git pull") <=> inv_dir0 = "repo"
    /\ Ran("rmtree") <=> inv_dir0 \in {"plain", "symlink"}
    /\ Ran("rmtree") => CallsOf("rmtree") = {1}
    /\ ~(Ran("git pull") /\ Ran("git clone"))

\* the clauses of C17 about the attempts of the chosen operation op
C17_Attempts(op) ==
    /\ Cardinality(CallsOf(op)) <= InventoryAttempts
    /\ \A k \in CallsOf(op) : inv_calls[k].outcome = "ok" => k = Len(inv_calls)
    /\ Cardinality(FailedCallsOf(op)) = InventoryAttempts => inv_pc = "exit1"
    /\ CallsOf(op) # FailedCallsOf(op) => inv_pc = "returned"

\* C17: when update-inventory has ended, git pull was run if and only if the
\* inventory directory existed and contained .git; otherwise git clone was
\* run, preceded by a removal of the directory tree if and only if the
\* directory existed without .git; clone and pull are never both run; the
\* command exits with status 1 when the chosen operation failed on all 3
\* attempts and returns normally when an attempt succeeded.
C17_CloneOrPull ==
    InventoryDone =>
        /\ C17_PullRemoveOrder
        /\ inv_dir0 # "repo" => Ran("git clone")
        /\ C17_Attempts(IF inv_dir0 = "repo" THEN "git pull" ELSE "git clone")

\* C17 as the code has it: the same, except that git clone is run only when
\* the removal of the directory tree, where one was needed, succeeded; when
\* the removal raises, no git command is run and the command exits with
\* status 1.  The command ends in no other way than after a successful
\* attempt, after 3 failed attempts or after a failed removal.
C17_CloneUnlessRemovalFails ==
    InventoryDone =>
        /\ C17_PullRemoveOrder
        /\ Ran("git clone") <=> (inv_dir0 # "repo" /\ ~RemovalFailed)
        /\ RemovalFailed => (inv_pc = "exit1" /\ Len(inv_calls) = 1)
        /\ C17_Attempts(IF inv_dir0 = "repo" THEN "git pull" ELSE "git clone")
        /\ inv_pc = "exit1" =>
              \/ RemovalFailed
              \/ Cardinality(FailedCallsOf(IF inv_dir0 = "repo" THEN "git pull"
                                           ELSE "git clone")) = InventoryAttempts
        /\ inv_pc = "returned" => inv_calls[Len(inv_calls)].outcome = "ok"

C17_Witness ==
    /\ inv_pc = "returned"
    /\ inv_dir0 = "plain" /\ inv_dir = "repo"
    /\ inv_calls = <<Call("rmtree", "ok"), Call("git clone", "CalledProcessError"),
                     Call("git clone", "TimeoutExpired"), Call("git clone", "ok")>>
    /\ inv_sleeps = <<5, 10>>

(***************************************************************************)
(* ubuntu/bootstrap_utils.py: setup_environment                            *)
(*                                                                         *)
(* The text of /etc/environment is a sequence of tokens, each standing for *)
(* the characters it is named for: a variable name, "=", a double quote, a *)
(* newline or a value.  env_file is the file as it is now, env_before the  *)
(* file as each run of setup_environment found it, env_results how each    *)
(* run ended.                                                              *)
(***************************************************************************)
MaxRuns == 2

NL == "\n"
Quote == "\""

EnvFile(text) == [exists |-> TRUE, text |-> text]
NoEnvFile == [exists |-> FALSE, text |-> <<>>]

\* /etc/environment before the first run
EnvFiles ==
    { NoEnvFile,
      EnvFile(<<>>),
      EnvFile(<<"LANG", "=", "C", NL>>),
      EnvFile(<<"LANG", "=", "C">>),
      EnvFile(<<"PUID", "=", "1000", NL>>),
      EnvFile(<<"PUID", "=", "1001">>),
      EnvFile(<<"TZ", "=", Quote, "UTC", Quote, NL>>),
      EnvFile(<<"PUID", "=", "1000", NL, "PGID", "=", "140", NL,
                "TZ", "=", Quote, "UTC", Quote, NL,
                "USERDIR", "=", Quote, "/home/u", Quote, NL>>) }

\* what `id` prints: the uid and the id of group _appserverusr as the two
\* regular expressions find them, <<>> when the expression does not match
IdOutputs ==
    { [uid |-> <<"1000">>, gid |-> <<"140">>],
      [uid |-> <<"1001">>, gid |-> <<"140">>],
      [uid |-> <<"1000">>, gid |-> <<>>],
      [uid |-> <<>>, gid |-> <<"140">>] }

\* tzlocal.get_localzone().zone; os.path.expanduser('~') is /home/u
LocalZones == {<<"UTC">>, <<"Europe/Oslo">>}

EnvIdle == env_file = NoEnvFile /\ env_before = <<>> /\ env_results = <<>>

EnvInit == env_file \in EnvFiles /\ env_before = <<>> /\ env_results = <<>>

\* the positions where name=(.+) matches: the name, "=", and at least one
\* character other than a newline
MatchesAt(name, text) ==
    { i \in 1..Len(text) :
        /\ i + 2 <= Len(text)
        /\ text[i] = name /\ text[i + 1] = "=" /\ text[i + 2] # NL }

\* (.+) is greedy and stops at the newline or at the end of the text
RECURSIVE RestOfLine(_, _)
RestOfLine(text, i) ==
    IF i > Len(text) \/ text[i] = NL THEN <<>>
    ELSE <<text[i]>> \o RestOfLine(text, i + 1)

\* re.search(name=(.+), text).group(1), the first match; <<>> for no match
FirstMatch(name, text) ==
    IF MatchesAt(name, text) = {} THEN <<>>
    ELSE LET i == CHOOSE j \in MatchesAt(name, text) :
                     \A k \in MatchesAt(name, text) : j <= k
         IN  RestOfLine(text, i + 2)

\* existing_env_vars.get(name, default)
ExistingOr(file, name, default) ==
    IF file.exists /\ FirstMatch(name, file.text) # <<>>
    THEN FirstMatch(name, file.text)
    ELSE default

\* lines_to_add, in the order they are appended
LinesToAdd(file, cur_uid, docker_gid, zone, home) ==
    << <<"PUID", "=">> \o ExistingOr(file, "PUID", cur_uid),
       <<"PGID", "=">> \o ExistingOr(file, "PGID", docker_gid),
       <<"TZ", "=", Quote>> \o ExistingOr(file, "TZ", zone) \o <<Quote>>,
       <<"USERDIR", "=", Quote>> \o ExistingOr(file, "USERDIR", home) \o <<Quote>> >>

\* '\n'.join(lines)
RECURSIVE Join(_)
Join(lines) ==
    IF lines = <<>> THEN <<>>
    ELSE IF Len(lines) = 1 THEN lines[1]
    ELSE lines[1] \o <<NL>> \o Join(Tail(lines))

\* one run of setup_environment: RuntimeError before anything is written
\* when `id` cannot be parsed, otherwise the joined lines are appended to
\* the file, which open(..., 'a+') creates when it is missing
setup_environment ==
    /\ Len(env_before) < MaxRuns
    /\ env_before' = Append(env_before, env_file)
    /\ \E id \in IdOutputs, zone \in LocalZones :
        IF id.uid = <<>> \/ id.gid = <<>>
        THEN /\ env_results' = Append(env_results, "RuntimeError")
             /\ UNCHANGED env_file
        ELSE /\ env_results' = Append(env_results, "ok")
             /\ env_file' = EnvFile(env_file.text
                               \o Join(LinesToAdd(env_file, id.uid, id.gid, zone, <<"/home/u">>)))
    /\ UNCHANGED <<rt_vars, pm_vars, net_vars, dl_vars, inv_vars>>

\* the line (counted in newlines before it) a position of the text is on
LineOf(text, i) == Cardinality({ k \in 1..(i - 1) : text[k] = NL })

\* the number of lines of the file that define name
DefiningLines(file, name) ==
    Cardinality({ LineOf(file.text, i) : i \in MatchesAt(name, file.text) })

Defines(file, name) == file.exists /\ MatchesAt(name, file.text) # {}

\* the value the file defines for name, as setup_environment itself reads it
ValueIn(file, name) == FirstMatch(name, file.text)

\* the file as run r left it
EnvAfter(r) == IF r < Len(env_before) THEN env_before[r + 1] ELSE env_file

\* C18: for each of PUID, PGID, TZ and USERDIR, a variable /etc/environment
\* defined before a run of setup_environment has the same value after it,
\* and a second run on the file the first run left changes neither the value
\* of a variable nor the number of lines that define it.
C18_KeepsEntriesIdempotent ==
    \A name \in {"PUID", "PGID", "TZ", "USERDIR"} :
        /\ \A r \in 1..Len(env_before) :
              (env_results[r] = "ok" /\ Defines(env_before[r], name)) =>
                  ValueIn(EnvAfter(r), name) = ValueIn(env_before[r], name)
        /\ (Len(env_before) >= 2 /\ env_results[1] = "ok" /\ env_results[2] = "ok") =>
              /\ ValueIn(EnvAfter(2), name) = ValueIn(EnvAfter(1), name)
              /\ DefiningLines(EnvAfter(2), name) = DefiningLines(EnvAfter(1), name)

(***************************************************************************)
(* Properties of configure_network_interfaces                              *)
(***************************************************************************)
Exited == pc \in {"exit_json", "fail_json"}
Succeeded == pc = "exit_json" /\ ~check_mode

\* C1: whenever the module exits, through exit_json or through fail_json,
\* the result field changed is true if and only if changelog is non-empty.
C1_ChangedIffChangelog ==
    Exited => (result.changed <=> result.changelog # <<>>)

\* the service and the port that interface i configures, once they are known
Known(i) ==
    /\ hardware_ports # None
    /\ network_services # None
    /\ interfaces[i].mac_address.s \in DOMAIN network_services.d

PhaseRank ==
    ("ipv4" :> 1) @@ ("ipv6" :> 2) @@ ("dns" :> 3) @@ ("search" :> 4) @@
    ("media" :> 5) @@ ("mtu" :> 6) @@ ("name" :> 7)

\* configure_interface has run the block `phase` for interface i without error
PhaseDone(i, phase) ==
    \/ Succeeded
    \/ pc = "finish" /\ ~raised
    \/ /\ pc \in {"configure", "getinfo"} \cup DOMAIN PhaseRank
       /\ \/ i < idx
          \/ i = idx /\ pc \in DOMAIN PhaseRank /\ PhaseRank[pc] > PhaseRank[phase]

\* the commands run so far with one of the subcommands ops for target
CommandsFor(ops, target) ==
    SelectSeq(result.commands_run,
              LAMBDA c : c.op \in ops /\ c.args # <<>> /\ c.args[1] = target)

IPv4Ops == {"-setdhcp", "-setmanualwithdhcprouter", "-setmanual"}
IPv6Ops == {"-setv6off", "-setv6automatic", "-setv6LinkLocal", "-setv6manual"}
MediaOps == {"-setmedia", "-setMTUAndMediaAutomatically"}
StateChangingOps ==
    IPv4Ops \cup IPv6Ops \cup MediaOps \cup
    {"-setdnsservers", "-setsearchdomains", "-setMTU", "-renamenetworkservice"}

Groups == {"ipv4", "ipv6", "dns", "search", "media", "mtu", "name"}

GroupOps(g) ==
    CASE g = "ipv4" -> IPv4Ops
      [] g = "ipv6" -> IPv6Ops
      [] g = "dns" -> {"-setdnsservers"}
      [] g = "search" -> {"-setsearchdomains"}
      [] g = "media" -> MediaOps
      [] g = "mtu" -> {"-setMTU"}
      [] g = "name" -> {"-renamenetworkservice"}

\* the state-changing commands of group g run so far for interface i
GroupCommands(i, g) ==
    IF ~Known(i) THEN <<>>
    ELSE CommandsFor(GroupOps(g),
                     IF g \in {"media", "mtu"} THEN PortOf(i).name
                     ELSE ServiceOf(i).name)

\* the playbook declares a value for group g of interface i
Declared(i, g) ==
    LET config == interfaces[i] IN
    CASE g = "ipv4" ->
            \/ config.dhcp = PyBool(TRUE)
            \/ config.dhcp_with_manual_address # None
            \/ config.manual # None
      [] g = "ipv6" ->
            /\ config.ipv6 # None
            /\ \/ \E k \in {"off", "automatic", "link_local"} :
                    config.ipv6.d[k] = PyBool(TRUE)
               \/ config.ipv6.d.manual # None
      [] g = "dns" -> config.dns_servers # None
      [] g = "search" -> config.search_domains # None
      [] g = "media" -> TRUE
      [] g = "mtu" -> config.hardware # None
      [] g = "name" -> config.name # None

\* the value the host reports for group g of interface i equals the declared one
InPlace(i, g) ==
    LET config == interfaces[i]
        service == ServiceOf(i)
        hw == host.hw[PortOf(i).name.s]
    IN
    CASE g = "ipv4" ->
            \/ config.dhcp = PyBool(TRUE) /\ service.configuration = "dhcp"
            \/ /\ config.dhcp_with_manual_address # None
               /\ service.configuration = "dhcp_with_manual_address"
               /\ service.ip_address = config.dhcp_with_manual_address.d.ip_address
            \/ /\ config.manual # None
               /\ service.configuration = "manual"
               /\ service.ip_address = config.manual.d.ip_address
               /\ service.subnet_mask = config.manual.d.subnet_mask
               /\ service.router = config.manual.d.router
      [] g = "ipv6" ->
            LET first == CHOOSE k \in {"off", "automatic", "link_local", "manual"} :
                             /\ Truthy(config.ipv6.d[k])
                             /\ k = "automatic" => ~Truthy(config.ipv6.d.off)
                             /\ k = "link_local" => \A j \in {"off", "automatic"} :
                                                        ~Truthy(config.ipv6.d[j])
                             /\ k = "manual" =>
                                    \A j \in {"off", "automatic", "link_local"} :
                                        ~Truthy(config.ipv6.d[j])
            IN
            IF first = "manual"
            THEN /\ service.ipv6_address = config.ipv6.d.manual.d.address
                 /\ service.ipv6_router = config.ipv6.d.manual.d.router
                 /\ service.ipv6_prefix_length = config.ipv6.d.manual.d.prefix_length
            ELSE service.ipv6_configuration = first
      [] g = "dns" -> host.dns[service.name.s] = config.dns_servers.items
      [] g = "search" -> host.search[service.name.s] = config.search_domains.items
      [] g = "media" ->
            /\ hw.media.wellformed
            /\ IF config.hardware = None
               THEN hw.media.current = Autoselect /\ hw.mtu # None
                    /\ hw.mtu.current = DefaultMTU
               ELSE IF config.hardware.d.speed = None
               THEN hw.media.current = Autoselect
               ELSE hw.media.current = MediaConfigOf(config.hardware)
      [] g = "mtu" ->
            /\ hw.mtu # None
            /\ hw.mtu.current = IF config.hardware.d.mtu = None THEN DefaultMTU
                                ELSE config.hardware.d.mtu.n
      [] g = "name" -> service.name = config.name

C3_InPlaceMeansEmptyChangelog ==
    (/\ Succeeded
     /\ \A i \in 1..Len(interfaces) : \A g \in Groups :
            Declared(i, g) => InPlace(i, g))
        => result.changelog = <<>>

\* C5 as stated: once a command has exited nonzero (its return code is on
\* record in result.returncode) the run has raised and is on its way to
\* fail_json, and that command is the last one issued.
C5_AnyFailureFails ==
    result.returncode # None =>
        /\ raised
        /\ pc \in {"finish", "fail_json"}
        /\ result.commands_run[Len(result.commands_run)] = result.cmd

\* the step issued commands and recorded the last of them as failed
FailedStep ==
    /\ Len(result'.commands_run) > Len(result.commands_run)
    /\ result'.returncode # None
    /\ result'.cmd = result'.commands_run[Len(result'.commands_run)]

\* C5 as the code has it: a command that exits nonzero makes the module
\* raise, issue no further command and end with fail_json, unless it is a
\* -getinfo of the enumeration of network services: that failure is caught,
\* the service is left out, and the enumeration goes on with the next one.
C5_FailureEndsRunExceptGetInfo ==
    [][/\ FailedStep =>
            IF pc = "getinfo"
            THEN pc' = "getinfo" /\ ~raised' /\ svc_idx' = svc_idx + 1
            ELSE raised' /\ pc' = "finish"
       /\ pc = "finish" =>
            /\ result'.commands_run = result.commands_run
            /\ raised => pc' = "fail_json"
       /\ pc \in {"exit_json", "fail_json"} => UNCHANGED vars]_vars

\* a state-changing command failed after the enumeration had caught a failed
\* -getinfo, and the module ended with fail_json
C5_Witness ==
    /\ pc = "fail_json"
    /\ result.returncode # None
    /\ result.cmd.op \in StateChangingOps
    /\ result.cmd = result.commands_run[Len(result.commands_run)]
    /\ network_services # None
    /\ Mac2.s \notin DOMAIN network_services.d

ListGroups == {"dns", "search"}

ListGetOp(g) == IF g = "dns" THEN "-getdnsservers" ELSE "-getsearchdomains"

ListDeclared(i, g) ==
    IF g = "dns" THEN interfaces[i].dns_servers ELSE interfaces[i].search_domains

ListOnHost(i, g) ==
    IF g = "dns" THEN host.dns[ServiceOf(i).name.s] ELSE host.search[ServiceOf(i).name.s]

\* C8: for dns_servers and for search_domains of every interface: when the
\* option is None neither its get nor its set command is issued; when it is
\* an empty list the set command is issued once with the single argument
\* "Empty"; when it is a non-empty list the set command is issued once with
\* exactly the listed values in the given order.
C8_ListOptionCommands ==
    \A i \in 1..Len(interfaces) : \A g \in ListGroups :
        Known(i) =>
            LET wanted == ListDeclared(i, g)
                name == ServiceOf(i).name
                sets == GroupCommands(i, g)
                gets == CommandsFor({ListGetOp(g)}, name)
            IN
            /\ wanted = None => sets = <<>> /\ gets = <<>>
            /\ (wanted # None /\ PhaseDone(i, g)) =>
                  /\ Len(sets) = 1
                  /\ sets[1].args =
                        IF wanted.items = <<>> THEN <<name, PyStr("Empty")>>
                        ELSE <<name>> \o wanted.items

\* a run succeeded that set two DNS servers in the declared order and
\* cleared the search domains
C8_Witness ==
    /\ Succeeded
    /\ interfaces[1].dns_servers = PyList(<<Dns2, Dns1>>)
    /\ interfaces[1].search_domains = PyList(<<>>)
    /\ GroupCommands(1, "dns") =
          <<Cmd("-setdnsservers", <<ServiceOf(1).name, Dns2, Dns1>>)>>
    /\ GroupCommands(1, "search") =
          <<Cmd("-setsearchdomains", <<ServiceOf(1).name, PyStr("Empty")>>)>>

\* C9: for every interface entry with exactly one of dhcp,
\* dhcp_with_manual_address and manual given, configure_interface issues
\* exactly one IPv4 command, the one matching the given option.
C9_OneIPv4CommandPerEntry ==
    \A i \in 1..Len(interfaces) :
        (Known(i) /\ PhaseDone(i, "ipv4")) =>
            LET config == interfaces[i]
                cmds == GroupCommands(i, "ipv4")
            IN
            /\ Len(cmds) = 1
            /\ cmds[1].op =
                  IF config.dhcp # None THEN "-setdhcp"
                  ELSE IF config.dhcp_with_manual_address # None
                  THEN "-setmanualwithdhcprouter"
                  ELSE "-setmanual"

\* the changelog holds the "set" entry of list group g for interface i
ListEntryLogged(i, g) ==
    \E k \in 1..Len(result.changelog) :
        result.changelog[k] =
            Entry(IF g = "dns" THEN "dns_servers" ELSE "search_domains",
                  ServiceOf(i).name.s, "set")

\* C10: after a successful run, for every interface whose dns_servers
\* (search_domains) is a non-empty list, the changelog has the DNS-servers
\* (search-domains) entry exactly when the set of values configured on the
\* service differs from the requested set.
C10_ListEntryIffSetsDiffer ==
    Succeeded =>
        \A i \in 1..Len(interfaces) : \A g \in ListGroups :
            LET wanted == ListDeclared(i, g) IN
            (wanted # None /\ wanted.items # <<>>) =>
                (ListEntryLogged(i, g) <=>
                    SetOf(ListOnHost(i, g)) # SetOf(wanted.items))

\* the arguments after the port name that C13 expects of -setmedia
C13_MediaArgs(hardware) ==
    IF hardware.d.speed = None THEN <<PyStr("autoselect")>>
    ELSE <<PyStr(CASE hardware.d.speed.n = 10 -> "10baseT/UTP"
                   [] hardware.d.speed.n = 100 -> "100baseTX"
                   [] hardware.d.speed.n = 1000 -> "1000baseT"),
           PyStr(IF hardware.d.duplex \in {PyStr("half"), PyStr("half-duplex")}
                 THEN "half-duplex" ELSE "full-duplex")>> \o
         (IF hardware.d.flow_control = PyBool(TRUE)
          THEN <<PyStr("flow-control")>> ELSE <<>>) \o
         (IF hardware.d.energy_efficient_ethernet = PyBool(TRUE)
          THEN <<PyStr("energy-efficient-ethernet")>> ELSE <<>>)

C14_NoErrorKeysOnSuccess ==
    pc = "exit_json" => (result.cmd = None /\ result.returncode = None)

ScriptsIdle == DownloadIdle /\ InventoryIdle /\ EnvIdle

InitNet == NetInitWith(NetRuns) /\ RetryIdle /\ PmIdle /\ ScriptsIdle

SpecNet == InitNet /\ [][NetNext]_vars

InitRetry == RetryInit /\ PmIdle /\ NetIdle /\ ScriptsIdle

SpecRetry == InitRetry /\ [][RetryNext]_vars

InitPmset == PmInit /\ RetryIdle /\ NetIdle /\ ScriptsIdle

SpecPmset == InitPmset /\ [][PmNext]_vars

InitDownload ==
    DownloadInit /\ RetryIdle /\ PmIdle /\ NetIdle /\ InventoryIdle /\ EnvIdle

SpecDownload == InitDownload /\ [][DownloadNext]_vars

InitInventory ==
    InventoryInit /\ RetryIdle /\ PmIdle /\ NetIdle /\ DownloadIdle /\ EnvIdle

SpecInventory == InitInventory /\ [][InventoryNext]_vars

InitEnvironment ==
    EnvInit /\ RetryIdle /\ PmIdle /\ NetIdle /\ DownloadIdle /\ InventoryIdle

SpecEnvironment == InitEnvironment /\ [][setup_environment]_vars
====
